---- MODULE Spec2Model ----
(***************************************************************************)
(* GitQlient commit graph cache (src/src/cache/GitCache.cpp).              *)
(*                                                                         *)
(* Strings (QString) are sequences of one-character strings, so that       *)
(* split, mid, startsWith, lastIndexOf and toInt are computed as the code  *)
(* computes them.  A pointer to a node of mCommitsMap is the key of that   *)
(* node (QHash nodes keep their address while the key stays in the hash,   *)
(* and the code never removes a key), NULL is the null pointer.            *)
(***************************************************************************)
EXTENDS Integers, Sequences, FiniteSets, Bags, TLC

(***************************************************************************)
(* QString helpers                                                         *)
(***************************************************************************)
Rep(c, n) == [i \in 1..n |-> c]

\* QString::mid(pos): the suffix starting at 0-based offset pos
Mid(s, pos) == IF pos >= Len(s) THEN <<>> ELSE SubSeq(s, pos + 1, Len(s))

\* QString::left(n)
Left(s, n) == IF n >= Len(s) THEN s ELSE SubSeq(s, 1, n)

\* QString::startsWith
StartsWith(s, p) == Len(p) <= Len(s) /\ SubSeq(s, 1, Len(p)) = p

\* QString::at(i), 0-based; the inputs of the model keep i in range
At(s, i) == s[i + 1]

\* QString::lastIndexOf(c): 0-based index of the last c, -1 when absent
LastIndexOf(s, c) ==
    LET hits == {i \in 1..Len(s) : s[i] = c}
    IN  IF hits = {} THEN -1 ELSE (CHOOSE i \in hits : \A j \in hits : j <= i) - 1

\* QString::split(sep): every field is kept, empty ones included
Split(s, sep) ==
    LET seps == {i \in 1..Len(s) : s[i] = sep}
        n == Cardinality(seps)
        \* position of the k-th separator; 0 before the first, Len(s) + 1 after the last
        pos(k) == IF k = 0 THEN 0
                  ELSE IF k > n THEN Len(s) + 1
                  ELSE CHOOSE p \in seps : Cardinality({q \in seps : q < p}) = k - 1
    IN  [k \in 1..(n + 1) |-> SubSeq(s, pos(k - 1) + 1, pos(k) - 1)]

\* QString::split(sep, SkipEmptyParts)
SplitSkipEmpty(s, sep) == SelectSeq(Split(s, sep), LAMBDA f : f /= <<>>)

\* QString::section('\t', -1): the last tab separated field
LastSection(s, sep) == LET f == Split(s, sep) IN f[Len(f)]

Digits == <<"0", "1", "2", "3", "4", "5", "6", "7", "8", "9">>

DigitVal(c) == (CHOOSE i \in 1..10 : Digits[i] = c) - 1

IsDigit(c) == \E i \in 1..10 : Digits[i] = c

RECURSIVE DigitsToInt(_, _)
DigitsToInt(s, acc) ==
    IF s = <<>> THEN acc ELSE DigitsToInt(Tail(s), acc * 10 + DigitVal(Head(s)))

\* QString::toInt(): 0 when the string is not a decimal number
ToInt(s) ==
    IF s /= <<>> /\ \A i \in 1..Len(s) : IsDigit(s[i]) THEN DigitsToInt(s, 0) ELSE 0

RECURSIVE NumberStr(_)
\* QString::number(n) for n >= 0
NumberStr(n) ==
    IF n < 10 THEN <<Digits[n + 1]>>
    ELSE NumberStr(n \div 10) \o <<Digits[(n % 10) + 1]>>

RECURSIVE Join(_, _)
Join(fields, sep) ==
    IF fields = <<>> THEN <<>>
    ELSE IF Len(fields) = 1 THEN fields[1]
    ELSE fields[1] \o <<sep>> \o Join(Tail(fields), sep)

Range(s) == {s[i] : i \in 1..Len(s)}

IndexOf(s, e) ==
    LET hits == {i \in 1..Len(s) : s[i] = e}
    IN  IF hits = {} THEN -1 ELSE (CHOOSE i \in hits : \A j \in hits : i <= j) - 1

\* the null pointer of a row of mCommits (a row holds a key of mCommitsMap)
NULL == <<"nullptr">>

\* the null pointer of FileNamesLoader::rf
NoRecord == "nullptr"

(***************************************************************************)
(* RevisionFiles and References::Type values.  The class RevisionFiles is  *)
(* declared outside the files at hand; its members are modelled from the   *)
(* data model of the specification (files, statuses, merge_parent,         *)
(* ext_status, only_modified).                                             *)
(***************************************************************************)
StatusFlags == {"NEW", "DELETED", "MODIFIED", "CONFLICT", "UNKNOWN", "IN_INDEX",
                "PARTIALLY_CACHED"}

\* RevisionFiles(): the default constructed record
EmptyRevisionFiles ==
    [mFiles |-> <<>>, mFileStatus |-> <<>>, mergeParent |-> <<>>,
     mRenamedFiles |-> <<>>, mOnlyModified |-> TRUE]

\* RevisionFiles::count()
RfCount(rf) == Len(rf.mFiles)

\* RevisionFiles::setStatus(int): appends one status word
SetStatusFlags(rf, st) == [rf EXCEPT !.mFileStatus = Append(@, st)]

\* RevisionFiles::setStatus(flag, isStaged): decodes the status letter of a diff line
SetStatusChar(rf, flag, isStaged) ==
    LET base == CASE flag = "M" -> {"MODIFIED"}
                  [] flag = "T" -> {"MODIFIED"}
                  [] flag = "U" -> {"MODIFIED", "CONFLICT"}
                  [] flag = "D" -> {"DELETED"}
                  [] flag = "A" -> {"NEW"}
                  [] flag = "?" -> {"UNKNOWN"}
                  [] OTHER -> {"MODIFIED"}
        staged == IF isStaged THEN {"IN_INDEX"} ELSE {}
    IN  SetStatusFlags(rf, base \cup staged)

\* RevisionFiles::appendExtStatus
AppendExtStatus(rf, info) == [rf EXCEPT !.mRenamedFiles = Append(@, info)]

\* RevisionFiles::setOnlyModified
SetOnlyModified(rf, b) == [rf EXCEPT !.mOnlyModified = b]

(***************************************************************************)
(* The diff parser.  A parse state P holds the interner tables of the      *)
(* cache (mDirNames, mFileNames), the FileNamesLoader fl and the records   *)
(* being filled, recs, indexed by the object they are: "rf" or "cached".   *)
(* fl.rf is NoRecord or the index of the record it points to.                  *)
(***************************************************************************)
StatusOffset == 97
TabOffset == 98
NameOffset == 99

\* FileNamesLoader(): no target, nothing pending
EmptyLoader == [rf |-> NoRecord, rfDirs |-> <<>>, rfNames |-> <<>>, files |-> <<>>]

NewParse(dirs, names) ==
    [mDirNames |-> dirs, mFileNames |-> names, fl |-> EmptyLoader,
     recs |-> [t \in {"rf", "cached"} |-> EmptyRevisionFiles]]

\* GitCache::appendFileName
appendFileName(P, name) ==
    LET idx == LastIndexOf(name, "/") + 1
        dr == Left(name, idx)
        nm == Mid(name, idx)
        itD == IndexOf(P.mDirNames, dr)
        dirs == IF itD = -1 THEN Append(P.mDirNames, dr) ELSE P.mDirNames
        dIdx == IF itD = -1 THEN Len(P.mDirNames) ELSE itD
        itN == IndexOf(P.mFileNames, nm)
        names == IF itN = -1 THEN Append(P.mFileNames, nm) ELSE P.mFileNames
        nIdx == IF itN = -1 THEN Len(P.mFileNames) ELSE itN
    IN  [P EXCEPT !.mDirNames = dirs, !.mFileNames = names,
                  !.fl.rfDirs = Append(@, dIdx), !.fl.rfNames = Append(@, nIdx),
                  !.fl.files = Append(@, name)]

RECURSIVE FlushInto(_, _, _, _)
\* the loop of flushFileNames: appends dir + name unless the record holds it already
FlushInto(P, i, n, acc) ==
    IF i > n THEN acc
    ELSE LET full == P.mDirNames[P.fl.rfDirs[i] + 1] \o P.mFileNames[P.fl.rfNames[i] + 1]
         IN  FlushInto(P, i + 1, n, IF full \in Range(acc) THEN acc ELSE Append(acc, full))

\* GitCache::flushFileNames.  A target that is not among the records is a
\* pointer to an object that no longer exists: what is written there is lost.
flushFileNames(P) ==
    IF P.fl.rf = NoRecord THEN P
    ELSE LET tgt == P.fl.rf
             P1 == IF tgt \in DOMAIN P.recs
                   THEN [P EXCEPT !.recs[tgt].mFiles =
                            FlushInto(P, 1, Len(P.fl.rfNames), @)]
                   ELSE P
         IN  [P1 EXCEPT !.fl.rfNames = <<>>, !.fl.rfDirs = <<>>, !.fl.rf = NoRecord]

\* "if (fl.rf != &rf) { flushFileNames(fl); fl.rf = &rf; }"
Rebind(P, self) ==
    IF P.fl.rf /= self THEN [flushFileNames(P) EXCEPT !.fl.rf = self] ELSE P

\* one entry of setExtStatus: "appendFileName(name, fl); rf.mergeParent.append(parNum);
\* rf.setStatus(status); rf.appendExtStatus(extStatusInfo);" after the rebinding
ExtEntry(P, self, name, status, parNum, extStatusInfo) ==
    [appendFileName(Rebind(P, self), name) EXCEPT !.recs[self] =
        AppendExtStatus(SetStatusFlags([@ EXCEPT !.mergeParent = Append(@, parNum)], status),
                        extStatusInfo)]

\* the rest of setExtStatus once the three fields are there; type has lost
\* its first character ("type.remove(0, 1)") before "type.at(0) == 'R'" reads it
ExtEntries(P, self, type, orig, dest, parNum, extStatusInfo) ==
    [(IF At(type, 0) = "R"
      THEN ExtEntry(ExtEntry(P, self, dest, {"NEW"}, parNum, extStatusInfo),
                    self, orig, {"DELETED"}, parNum, extStatusInfo)
      ELSE ExtEntry(P, self, dest, {"NEW"}, parNum, extStatusInfo))
     EXCEPT !.recs[self] = SetOnlyModified(@, FALSE)]

\* "orig --> dest (n%)"
ExtStatusInfo(type, orig, dest) ==
    orig \o <<" ", "-", "-", ">", " ">> \o dest \o <<" ", "(">>
         \o NumberStr(ToInt(type)) \o <<"%", ")">>

\* the fields of setExtStatus, split
ExtFields(P, self, sl, parNum) ==
    IF Len(sl) /= 3 THEN P
    ELSE ExtEntries(P, self, Tail(sl[1]), sl[2], sl[3], parNum,
                    ExtStatusInfo(Tail(sl[1]), sl[2], sl[3]))

\* GitCache::setExtStatus
setExtStatus(P, self, rowSt, parNum) ==
    ExtFields(P, self, SplitSkipEmpty(rowSt, "\t"), parNum)

\* one iteration of the loop of parseDiffFormat; st = [P, parNum]
ParseLine(st, line, self, cached) ==
    LET P == st.P
        parNum == st.parNum
    IN  IF At(line, 0) /= ":" THEN [st EXCEPT !.parNum = parNum + 1]
        ELSE IF At(line, 1) = ":"
        THEN LET P0 == IF P.fl.rf /= self /\ ~cached THEN Rebind(P, self) ELSE P
                 P1 == appendFileName(P0, LastSection(line, "\t"))
             IN  [st EXCEPT !.P = [P1 EXCEPT !.recs[self] =
                    [SetStatusChar(@, "M", FALSE) EXCEPT !.mergeParent = Append(@, parNum)]]]
        ELSE IF At(line, TabOffset) = "\t"
        THEN LET fields == Split(line, " ")
                 dstSha == fields[4]
                 flag == At(fields[5], 0)
                 notZero == ~StartsWith(dstSha, Rep("0", 6))
                 fileIsCached == IF flag = "D" THEN ~notZero ELSE notZero
                 P0 == IF P.fl.rf /= self /\ (~cached \/ flag = "U")
                       THEN Rebind(P, self) ELSE P
                 P1 == appendFileName(P0, Mid(line, NameOffset))
             IN  [st EXCEPT !.P = [P1 EXCEPT !.recs[self] =
                    [SetStatusChar(@, flag, fileIsCached)
                        EXCEPT !.mergeParent = Append(@, parNum)]]]
        ELSE [st EXCEPT !.P = setExtStatus(P, self, Mid(line, StatusOffset), parNum)]

RECURSIVE ParseLines(_, _, _, _)
ParseLines(st, lines, self, cached) ==
    IF lines = <<>> THEN st
    ELSE ParseLines(ParseLine(st, Head(lines), self, cached), Tail(lines), self, cached)

\* GitCache::parseDiffFormat: fills the record `self`, starting from an empty one
parseDiffFormat(P, buf, self, cached) ==
    ParseLines([P |-> [P EXCEPT !.recs[self] = EmptyRevisionFiles], parNum |-> 1],
               SplitSkipEmpty(buf, "\n"), self, cached).P

\* GitCache::parseDiff
parseDiff(P, logDiff) ==
    flushFileNames([parseDiffFormat(P, logDiff, "rf", FALSE) EXCEPT !.fl.rf = "rf"])


\* RevisionFiles::statusCmp(i, flag).  An index past the status list reads
\* outside the list: the word read there is ub.oob, any value
statusCmp(rf, i, flag, ub) ==
    flag \in (IF i < Len(rf.mFileStatus) THEN rf.mFileStatus[i + 1] ELSE ub.oob)

\* RevisionFiles::appendStatus(i, flag); past the list the write does not
\* land in the record
appendStatus(rf, i, flag) ==
    IF i < Len(rf.mFileStatus)
    THEN [rf EXCEPT !.mFileStatus[i + 1] = @ \cup {flag}] ELSE rf

RECURSIVE AppendUntracked(_, _)
\* the loop over mUntrackedfiles of fakeWorkDirRevFile (fl.rf is &rf there)
AppendUntracked(P, files) ==
    IF files = <<>> THEN P
    ELSE LET P1 == appendFileName(Rebind(P, "rf"), Head(files))
         IN  AppendUntracked(
                [P1 EXCEPT !.recs["rf"] =
                    [SetStatusFlags(@, {"UNKNOWN"}) EXCEPT !.mergeParent = Append(@, 1)]],
                Tail(files))

RECURSIVE MarkCached(_, _, _, _)
\* the last loop of fakeWorkDirRevFile
MarkCached(rf, cachedFiles, i, ub) ==
    IF i >= RfCount(rf) THEN rf
    ELSE LET hit == IndexOf(cachedFiles.mFiles, rf.mFiles[i + 1]) /= -1
             r1 == IF ~hit THEN rf
                   ELSE IF statusCmp(cachedFiles, i, "CONFLICT", ub)
                   THEN appendStatus(rf, i, "CONFLICT")
                   ELSE IF statusCmp(rf, i, "MODIFIED", ub) /\ ~statusCmp(rf, i, "IN_INDEX", ub)
                   THEN appendStatus(rf, i, "PARTIALLY_CACHED")
                   ELSE rf
         IN  MarkCached(r1, cachedFiles, i + 1, ub)

\* the record parseDiffFormat returns reaches the caller.  ub.elide says
\* whether the build constructs it in place (then fl.rf still points to it)
\* or moves it (then fl.rf points to the dead local of the callee).
Returned(P, self, ub) ==
    IF ~ub.elide /\ P.fl.rf = self THEN [P EXCEPT !.fl.rf = "dead"] ELSE P

\* a plausible slip: the record keeps the only-modified flag it was built with
BindWorkDirKeepFlag(P) == [P EXCEPT !.fl.rf = "rf"]

\* "fl.rf = &rf; rf.setOnlyModified(false);"
BindWorkDir(P) == [P EXCEPT !.fl.rf = "rf", !.recs["rf"] = SetOnlyModified(@, FALSE)]

\* the last loop of fakeWorkDirRevFile and its return, with the tables it leaves
FakeResult(P, ub) ==
    [rf |-> MarkCached(P.recs["rf"], P.recs["cached"], 0, ub),
     mDirNames |-> P.mDirNames, mFileNames |-> P.mFileNames]

\* GitCache::fakeWorkDirRevFile
fakeWorkDirRevFile(dirs, names, untracked, diffIndex, diffIndexCache, ub) ==
    FakeResult(
        flushFileNames(
            Returned(
                parseDiffFormat(
                    AppendUntracked(
                        BindWorkDir(parseDiffFormat(NewParse(dirs, names), diffIndex,
                                                    "rf", FALSE)),
                        untracked),
                    diffIndexCache, "cached", TRUE),
                "cached", ub)),
        ub)

(***************************************************************************)
(* Commits.  CommitInfo is declared outside the files at hand: a commit is *)
(* its sha, its ordered parents, its log and its child back-references     *)
(* (pointers to nodes of mCommitsMap, that is keys), and its lanes, the     *)
(* glyph of each column of its row.                                        *)
(***************************************************************************)
ZERO_SHA == <<"0", "0">>

\* CommitInfo(): the default constructed, invalid commit
EmptyCommit == [sha |-> <<>>, parents |-> <<>>, log |-> "", childs |-> {}, lanes |-> <<>>]

NewCommit(sha, parents, log) ==
    [sha |-> sha, parents |-> parents, log |-> log, childs |-> {}, lanes |-> <<>>]

\* CommitInfo::isValid
isValid(c) == c.sha /= <<>>

\* CommitInfo::parent(idx) for idx = 0: empty when there is no parent
Parent0(c) == IF Len(c.parents) > 0 THEN c.parents[1] ELSE <<>>

\* CommitInfo::addChildReference
addChildReference(c, child) == [c EXCEPT !.childs = @ \cup {child}]

\* QHash::value(key, CommitInfo())
MapValue(map, sha) == IF sha \in DOMAIN map THEN map[sha] ELSE EmptyCommit

\* QHash::operator[](key) = v and QHash::insert(key, v)
MapPut(map, sha, v) == [k \in DOMAIN map \cup {sha} |-> IF k = sha THEN v ELSE map[k]]

\* QHash::operator[](key) used for its address: the key is created when absent
MapTouch(map, sha) == IF sha \in DOMAIN map THEN map ELSE MapPut(map, sha, EmptyCommit)

\* QMultiMap::values(key), as the set of the children stored under the key
TmpValues(tmp, sha) == {e[2] : e \in {x \in BagToSet(tmp) : x[1] = sha}}

\* QMultiMap::remove(key): every entry of the key goes
TmpRemove(tmp, sha) ==
    LET keep == {x \in BagToSet(tmp) : x[1] /= sha} IN [x \in keep |-> tmp[x]]

RECURSIVE TmpInsertAll(_, _, _)
\* "for (parent : parents) mTmpChildsStorage.insert(parent, &mCommitsMap[sha])"
TmpInsertAll(tmp, parents, sha) ==
    IF parents = <<>> THEN tmp
    ELSE TmpInsertAll(tmp (+) SetToBag({<<Head(parents), sha>>}), Tail(parents), sha)

\* QMap::value(key): the default constructed record when the key is absent
RfValue(rfmap, key) == IF key \in DOMAIN rfmap THEN rfmap[key] ELSE EmptyRevisionFiles

(***************************************************************************)
(* The operations of GitCache on a cache c: a record of the members.       *)
(***************************************************************************)
\* a plausible slip: the record is stored without comparing it with the one held
insertRevisionFileNoCompare(c, sha1, sha2, file) ==
    LET key == <<sha1, sha2>>
    IN  IF (sha1 /= <<>> /\ sha2 /= <<>>) \/ sha1 = ZERO_SHA
        THEN [cache |-> [c EXCEPT !.mRevisionFilesMap =
                            [k \in DOMAIN @ \cup {key} |-> IF k = key THEN file ELSE @[k]]],
              ret |-> TRUE]
        ELSE [cache |-> c, ret |-> FALSE]

\* GitCache::insertRevisionFile: the cache after the call and the value returned
insertRevisionFile(c, sha1, sha2, file) ==
    LET key == <<sha1, sha2>>
        emptyShas == sha1 /= <<>> /\ sha2 /= <<>>
        isWip == sha1 = ZERO_SHA
    IN  IF (emptyShas \/ isWip) /\ RfValue(c.mRevisionFilesMap, key) /= file
        THEN [cache |-> [c EXCEPT !.mRevisionFilesMap =
                            [k \in DOMAIN @ \cup {key} |-> IF k = key THEN file ELSE @[k]]],
              ret |-> TRUE]
        ELSE [cache |-> c, ret |-> FALSE]

(***************************************************************************)
(* The lane engine.  Lanes is declared outside the files at hand: it is    *)
(* modelled from its description, the columns of the current row, each a   *)
(* glyph and the sha the column leads to, and the active column.           *)
(***************************************************************************)
\* Lanes::clear, and the engine of a new cache
EmptyLanes == [activeLane |-> 0, typeVec |-> <<>>, nextShaVec |-> <<>>]

\* Lanes::isEmpty
LanesIsEmpty(L) == L.typeVec = <<>>

\* the first column at or after pos that leads to sha, -1 when there is none
findNextSha(L, sha, pos) ==
    IF \E i \in pos..(Len(L.nextShaVec) - 1) : L.nextShaVec[i + 1] = sha
    THEN CHOOSE i \in pos..(Len(L.nextShaVec) - 1) :
            /\ L.nextShaVec[i + 1] = sha
            /\ \A j \in pos..(i - 1) : L.nextShaVec[j + 1] /= sha
    ELSE -1

\* the column a new lane takes: the first empty one after pos, else a new one
addIndex(L, pos) ==
    IF \E i \in (pos + 1)..(Len(L.typeVec) - 1) : L.typeVec[i + 1] = "Empty"
    THEN CHOOSE i \in (pos + 1)..(Len(L.typeVec) - 1) :
            /\ L.typeVec[i + 1] = "Empty"
            /\ \A j \in (pos + 1)..(i - 1) : L.typeVec[j + 1] /= "Empty"
    ELSE Len(L.typeVec)

\* Lanes::add
add(L, type, sha, pos) ==
    IF addIndex(L, pos) < Len(L.typeVec)
    THEN [L EXCEPT !.typeVec[addIndex(L, pos) + 1] = type,
                   !.nextShaVec[addIndex(L, pos) + 1] = sha]
    ELSE [L EXCEPT !.typeVec = Append(@, type), !.nextShaVec = Append(@, sha)]

\* Lanes::init: one branch lane that leads to sha
init(sha) == add(EmptyLanes, "Branch", sha, 0)

\* Lanes::isFork: more than one column leads to sha
isFork(L, sha) ==
    /\ findNextSha(L, sha, 0) /= -1
    /\ findNextSha(L, sha, findNextSha(L, sha, 0) + 1) /= -1

\* the out parameter of Lanes::isFork: sha is not where the active column leads
isDiscontinuity(L, sha) == L.activeLane /= findNextSha(L, sha, 0)

\* the active column moves to column idx
activateLane(L, idx) == [L EXCEPT !.typeVec[idx + 1] = "Active", !.activeLane = idx]

\* the active column moves to a new branch lane that leads to sha
branchLane(L, sha, from) ==
    [add(L, "Branch", sha, from) EXCEPT !.activeLane = addIndex(L, from)]

\* the active column is left
leaveLane(L) ==
    [L EXCEPT !.typeVec[L.activeLane + 1] = IF @ = "Initial" THEN "Empty" ELSE "NotActive"]

\* Lanes::changeActiveLane: to the column that leads to sha, a new one if none does
changeActiveLane(L, sha) ==
    IF findNextSha(L, sha, 0) /= -1
    THEN activateLane(leaveLane(L), findNextSha(L, sha, 0))
    ELSE branchLane(leaveLane(L), sha, L.activeLane)

\* the columns that lead to sha
LanesTo(L, sha) == {i \in 0..(Len(L.nextShaVec) - 1) : L.nextShaVec[i + 1] = sha}

\* Lanes::setFork: the active column is the node of the fork, the other
\* columns that lead to sha are its tails, those in between are crossed
setFork(L, sha) ==
    [L EXCEPT !.typeVec =
        [i \in 1..Len(L.typeVec) |->
            IF i - 1 = L.activeLane THEN "Fork"
            ELSE IF i - 1 \in LanesTo(L, sha) THEN "Tail"
            ELSE IF /\ \E a \in LanesTo(L, sha) \cup {L.activeLane} : a < i - 1
                    /\ \E b \in LanesTo(L, sha) \cup {L.activeLane} : b > i - 1
                    /\ L.typeVec[i] = "NotActive"
            THEN "Crossing" ELSE L.typeVec[i]]]

RECURSIVE openParents(_, _)
\* one lane per extra parent: the column that leads to it is joined, else a new one
openParents(L, parents) ==
    IF parents = <<>> THEN L
    ELSE IF findNextSha(L, Head(parents), 0) /= -1
    THEN openParents([L EXCEPT !.typeVec[findNextSha(L, Head(parents), 0) + 1] = "Join"],
                     Tail(parents))
    ELSE openParents(add(L, "Head", Head(parents), L.activeLane), Tail(parents))

\* Lanes::setMerge
setMerge(L, parents) ==
    openParents([L EXCEPT !.typeVec[L.activeLane + 1] = "Merge"], Tail(parents))

\* Lanes::setInitial
setInitial(L) ==
    [L EXCEPT !.typeVec[L.activeLane + 1] = IF @ \in {"Fork", "Merge"} THEN @ ELSE "Initial"]

\* Lanes::getLanes: the snapshot of the row
getLanes(L) == L.typeVec

\* Lanes::nextParent
nextParent(L, sha) == [L EXCEPT !.nextShaVec[L.activeLane + 1] = sha]

\* Lanes::afterMerge
afterMerge(L) ==
    [L EXCEPT !.typeVec =
        [i \in 1..Len(L.typeVec) |->
            IF L.typeVec[i] \in {"Head", "Join", "Crossing"} THEN "NotActive"
            ELSE IF L.typeVec[i] \in {"Merge", "Fork"} THEN "Active"
            ELSE L.typeVec[i]]]

RECURSIVE dropEmptyTail(_)
dropEmptyTail(L) ==
    IF L.typeVec /= <<>> /\ L.typeVec[Len(L.typeVec)] = "Empty"
    THEN dropEmptyTail([L EXCEPT !.typeVec = SubSeq(@, 1, Len(@) - 1),
                                 !.nextShaVec = SubSeq(@, 1, Len(@) - 1)])
    ELSE L

\* Lanes::afterFork
afterFork(L) ==
    dropEmptyTail(
        [L EXCEPT !.typeVec =
            [i \in 1..Len(L.typeVec) |->
                IF L.typeVec[i] = "Crossing" THEN "NotActive"
                ELSE IF L.typeVec[i] = "Tail" THEN "Empty"
                ELSE IF L.typeVec[i] \in {"Merge", "Fork"} THEN "Active"
                ELSE L.typeVec[i]]])

\* Lanes::isBranch
isBranch(L) ==
    L.activeLane < Len(L.typeVec) /\ L.typeVec[L.activeLane + 1] = "Branch"

\* Lanes::afterBranch
afterBranch(L) == [L EXCEPT !.typeVec[L.activeLane + 1] = "Active"]

\* the ends of GitCache::resetLanes
lanesAfterBranch(L) == IF isBranch(L) THEN afterBranch(L) ELSE L

lanesAfterFork(L, fork) == IF fork THEN afterFork(L) ELSE L

lanesAfterMerge(L, c) == IF Len(c.parents) > 1 THEN afterMerge(L) ELSE L

\* GitCache::resetLanes
resetLanes(L, c, fork) ==
    lanesAfterBranch(lanesAfterFork(lanesAfterMerge(nextParent(L, Parent0(c)), c), fork))

\* the marks of GitCache::calculateLanes, lines 317-325
markDiscontinuity(L, sha) == IF isDiscontinuity(L, sha) THEN changeActiveLane(L, sha) ELSE L

markFork(L, sha, fork) == IF fork THEN setFork(L, sha) ELSE L

markMerge(L, c) == IF Len(c.parents) > 1 THEN setMerge(L, c.parents) ELSE L

markInitial(L, c) == IF Len(c.parents) = 0 THEN setInitial(L) ELSE L

\* the engine of calculateLanes when it takes the snapshot
markedLanes(L, c) ==
    markInitial(markMerge(markFork(markDiscontinuity(L, c.sha), c.sha, isFork(L, c.sha)), c), c)

\* GitCache::calculateLanes: the lanes of c and the engine it leaves
calculateLanes(L, c) ==
    [lanes |-> getLanes(markedLanes(L, c)),
     mLanes |-> resetLanes(markedLanes(L, c), c, isFork(L, c.sha))]

\* a plausible slip: the commit is stored but row 0 is not pointed at it
installWipNoRow(c, wip) == [c EXCEPT !.mCommitsMap = MapPut(@, ZERO_SHA, wip)]

\* the end of insertWipRevision: "mCommitsMap.insert(sha, std::move(c));
\* mCommits[0] = &mCommitsMap[sha];"
installWip(c, wip) ==
    [c EXCEPT !.mCommitsMap = MapPut(@, ZERO_SHA, wip), !.mCommits[1] = ZERO_SHA]

\* the WIP commit of insertWipRevision: lines 209-217
WipCommit(newParentSha, fakeRevFile, untracked) ==
    NewCommit(ZERO_SHA,
              IF newParentSha /= <<>> THEN <<newParentSha>> ELSE <<>>,
              IF RfCount(fakeRevFile) = Len(untracked)
              THEN "No local changes" ELSE "Local changes")

\* "if (mLanes.isEmpty()) mLanes.init(c.sha());"
initLanes(L, sha) == IF LanesIsEmpty(L) THEN init(sha) ELSE L

\* mCommits[0]; the vector has a row 0 once setup has resized it
RowZero(c) == IF Len(c.mCommits) > 0 THEN c.mCommits[1] ELSE NULL

\* a plausible slip: the lanes computed for the new WIP commit are kept
wipLanesComputed(c, computed) == computed

\* "c.setLanes(calculateLanes(c)); if (mCommits[0]) c.setLanes(mCommits[0]->getLanes());"
wipLanes(c, computed) ==
    IF RowZero(c) /= NULL THEN c.mCommitsMap[RowZero(c)].lanes ELSE computed

\* lines 219-225 of insertWipRevision: the lanes of the WIP commit and the engine
setWipLanes(c, wip) ==
    [cache |-> [c EXCEPT !.mLanes = calculateLanes(initLanes(c.mLanes, wip.sha), wip).mLanes],
     wip |-> [wip EXCEPT !.lanes =
                 wipLanes(c, calculateLanes(initLanes(c.mLanes, wip.sha), wip).lanes)]]

\* lines 219-230 of insertWipRevision
installWipWithLanes(c, wip) ==
    installWip(setWipLanes(c, wip).cache, setWipLanes(c, wip).wip)

\* insertWipRevision once fakeWorkDirRevFile has returned
insertWipFiles(c, newParentSha, fake) ==
    installWipWithLanes(
        insertRevisionFile([c EXCEPT !.mDirNames = fake.mDirNames,
                                     !.mFileNames = fake.mFileNames],
                           ZERO_SHA, newParentSha, fake.rf).cache,
        WipCommit(newParentSha, fake.rf, c.mUntrackedfiles))

\* GitCache::insertWipRevision
insertWipRevision(c, wipInfo, ub) ==
    insertWipFiles(c, wipInfo.parentSha,
                   fakeWorkDirRevFile(c.mDirNames, c.mFileNames, c.mUntrackedfiles,
                                      wipInfo.diffIndex, wipInfo.diffIndexCached, ub))

\* lines 174-194 of insertCommitInfo: the commit, its lanes set, is stored
storeCommit(c, rev, orderIdx) ==
    LET sha == rev.sha
        isWipParent == sha = Parent0(MapValue(c.mCommitsMap, ZERO_SHA))
        rev1 == IF isWipParent THEN addChildReference(rev, ZERO_SHA) ELSE rev
        map0 == IF isWipParent THEN MapTouch(c.mCommitsMap, ZERO_SHA) ELSE c.mCommitsMap
        pending == TmpValues(c.mTmpChildsStorage, sha)
        rev2 == [rev1 EXCEPT !.childs = @ \cup pending]
        map1 == MapPut(map0, sha, rev2)
        tmp1 == TmpRemove(c.mTmpChildsStorage, sha)
    IN  [c EXCEPT !.mCommitsMap = map1,
                  !.mCommits[orderIdx + 1] = sha,
                  !.mTmpChildsStorage = TmpInsertAll(tmp1, rev2.parents, sha)]

\* GitCache::insertCommitInfo; orderIdx is the 0-based row
insertCommitInfo(c, rev, orderIdx) ==
    IF c.mConfigured THEN c
    ELSE storeCommit([c EXCEPT !.mLanes = calculateLanes(c.mLanes, rev).mLanes],
                     [rev EXCEPT !.lanes = calculateLanes(c.mLanes, rev).lanes],
                     orderIdx)

\* lines 29-47 of GitCache::setup: the reset and the resizing of the rows
setupReset(c, totalCommits) ==
    LET n == Len(c.mCommits)
        rows == IF n = 0 \/ totalCommits > n
                THEN c.mCommits \o Rep(NULL, totalCommits - n)
                ELSE IF totalCommits < n THEN SubSeq(c.mCommits, 1, totalCommits)
                ELSE c.mCommits
    IN  [c EXCEPT !.mConfigured = FALSE, !.mDirNames = <<>>, !.mFileNames = <<>>,
                  !.mRevisionFilesMap = <<>>, !.mLanes = EmptyLanes, !.mCommits = rows]

RECURSIVE setupLoopCountAll(_, _, _)
\* a plausible slip: the row counter advances over an invalid entry too
setupLoopCountAll(c, commits, count) ==
    IF commits = <<>> THEN c
    ELSE IF isValid(Head(commits))
    THEN setupLoopCountAll(insertCommitInfo(c, Head(commits), count), Tail(commits), count + 1)
    ELSE setupLoopCountAll(c, Tail(commits), count + 1)

RECURSIVE setupLoop(_, _, _)
\* the loop of GitCache::setup over the commits; count is the next row
setupLoop(c, commits, count) ==
    IF commits = <<>> THEN c
    ELSE IF isValid(Head(commits))
    THEN setupLoop(insertCommitInfo(c, Head(commits), count), Tail(commits), count + 1)
    ELSE setupLoop(c, Tail(commits), count)

\* GitCache::setup
setup(c, wipInfo, commits, ub) ==
    setupLoop(insertWipRevision(setupReset(c, Len(commits) + 1), wipInfo, ub), commits, 1)

\* GitCache::updateWipCommit: the cache after the call and the value returned
updateWipCommit(c, wipInfo, ub) ==
    IF c.mConfigured
    THEN [cache |-> insertWipRevision(c, wipInfo, ub), ret |-> TRUE]
    ELSE [cache |-> c, ret |-> FALSE]

(***************************************************************************)
(* Inputs.  A diff line has the layout of "git diff-index": the status     *)
(* letter is at offset 97, the tab of an ordinary line at offset 98 and    *)
(* its file name at offset 99.                                             *)
(***************************************************************************)
FileMode == <<"1", "0", "0", "6", "4", "4">>

BlobLen == 40

MetaPrefix(dstZero) ==
    <<":">> \o FileMode \o <<" ">> \o FileMode \o <<" ">> \o Rep("e", BlobLen) \o <<" ">>
            \o Rep(IF dstZero THEN "0" ELSE "f", BlobLen) \o <<" ">>

\* an ordinary line: ":100644 100644 <sha> <sha> M\t<name>"
FastLine(dstZero, flag, name) == MetaPrefix(dstZero) \o <<flag, "\t">> \o name

\* a rename or copy line: ":100644 100644 <sha> <sha> R85\t<orig>\t<dest>"
ExtLine(fields) == MetaPrefix(FALSE) \o Join(fields, "\t")

EmptyText == <<>>

ShaA == <<"a", "1">>
ShaB == <<"a", "2">>
ShaP == <<"b", "1">>

FileF == <<"d", "/", "f">>
FileU == <<"u">>

\* the commits a caller may hand to setup; EmptyCommit is an invalid entry
CommitInputs ==
    {NewCommit(ShaA, <<ShaP>>, "apple"), NewCommit(ShaB, <<ShaP>>, "banana"),
     NewCommit(ShaP, <<>>, "cherry"), EmptyCommit}

MaxCommits == 2

\* newest first: no commit comes after one of its children's parents, and no
\* sha comes twice
WellOrdered(cs) ==
    \A i \in 1..Len(cs) : \A j \in 1..Len(cs) :
        (i < j /\ isValid(cs[i]) /\ isValid(cs[j]))
            => (cs[i].sha /= cs[j].sha /\ cs[i].sha \notin Range(cs[j].parents))

CommitLists ==
    {cs \in UNION {[1..n -> CommitInputs] : n \in 0..MaxCommits} : WellOrdered(cs)}

WipInputs ==
    [parentSha : {<<>>, ShaA},
     diffIndex : {EmptyText, FastLine(TRUE, "M", FileF)},
     diffIndexCached : {EmptyText}]

\* the arguments of insertRevisionFile: an empty sha, the WIP, a commit
RfParentInputs == {<<>>, ZERO_SHA, ShaA}

RfChildInputs == {<<>>, ShaA}

\* parseDiff of one modified file, and the empty record
RfInputs == {EmptyRevisionFiles, parseDiff(NewParse(<<>>, <<>>), FastLine(FALSE, "M", FileF)).recs["rf"]}

FileG == <<"g">>

Percents == {<<"8", "5">>, <<"1", "0", "0">>}

\* well-formed rename and copy lines, of distinct paths
ExtInputs ==
    {[kind |-> "ext", text |-> ExtLine(<<<<f[1]>> \o f[2], f[3], f[4]>>), fields |-> f,
      names |-> <<f[4]>>] :
        f \in {g \in {"R", "C"} \X Percents \X {FileF, FileG} \X {FileU, FileG} :
                   g[3] /= g[4]}}

\* extended-status lines of two and of four fields, ordinary lines, and
\* texts of two ordinary lines, of two paths and of the same path (as in the
\* diff of a merge, which lists a file once per parent); names are the
\* paths of the entries, in the order of the lines
OtherDiffInputs ==
    {[kind |-> "malformed", text |-> ExtLine(<<<<"R", "8", "5">>, FileF>>), fields |-> <<>>,
      names |-> <<>>],
     [kind |-> "malformed", text |-> ExtLine(<<<<"C", "8", "5">>, FileF, FileG, FileU>>),
      fields |-> <<>>, names |-> <<>>],
     [kind |-> "fast", text |-> FastLine(FALSE, "M", FileF), fields |-> <<>>,
      names |-> <<FileF>>],
     [kind |-> "fast", text |-> FastLine(TRUE, "D", FileG), fields |-> <<>>,
      names |-> <<FileG>>],
     [kind |-> "fast",
      text |-> FastLine(FALSE, "M", FileF) \o <<"\n">> \o FastLine(FALSE, "M", FileG),
      fields |-> <<>>, names |-> <<FileF, FileG>>],
     [kind |-> "fast",
      text |-> FastLine(FALSE, "M", FileF) \o <<"\n", "x", "\n">>
                  \o FastLine(FALSE, "M", FileF),
      fields |-> <<>>, names |-> <<FileF, FileF>>]}

DiffInputs == ExtInputs \cup OtherDiffInputs

UntrackedInputs == {<<>>, <<FileU>>}

\* what the build may do where the code leaves it open (see fakeWorkDirRevFile)
UbChoices == [elide : BOOLEAN, oob : {{}, {"CONFLICT"}}]

\* with an empty cached diff no record is returned through fl.rf and no
\* status is read, so the choices all give the same result
UbFor(wipInfo) ==
    IF wipInfo.diffIndexCached = EmptyText
    THEN {[elide |-> TRUE, oob |-> {}]} ELSE UbChoices

(***************************************************************************)
(* State                                                                   *)
(***************************************************************************)
VARIABLES
    mConfigured,        \* bool GitCache::mConfigured
    mCommits,           \* QVector<CommitInfo *>: the rows
    mCommitsMap,        \* QHash<QString, CommitInfo>
    mTmpChildsStorage,  \* QMultiMap<QString, CommitInfo *>: a bag of <<parent, child>>
    mRevisionFilesMap,  \* QMap<QPair<QString, QString>, RevisionFiles>
    mUntrackedfiles,    \* QVector<QString>
    mDirNames,          \* QVector<QString>
    mFileNames,         \* QVector<QString>
    mLanes,             \* Lanes: the lane engine
    mReferences,        \* QHash<QString, References>
    mutex,              \* QMutex mMutex: the thread that holds it, or NoThread
    pc,                 \* where each thread is in the call it is making
    call,               \* the call each thread is making
    nSetups,            \* number of calls of setup that completed
    lastOp              \* the last call made and what it returned

cacheVars == <<mConfigured, mCommits, mCommitsMap, mTmpChildsStorage, mRevisionFilesMap,
               mUntrackedfiles, mDirNames, mFileNames, mLanes>>

threadVars == <<mutex, pc, call>>

vars == <<cacheVars, mReferences, threadVars, nSetups, lastOp>>

Threads == {1, 2}

NoThread == 0

MaxSetups == 2

\* the members as one record, the argument of the operations above
Cache ==
    [mConfigured |-> mConfigured, mCommits |-> mCommits, mCommitsMap |-> mCommitsMap,
     mTmpChildsStorage |-> mTmpChildsStorage, mRevisionFilesMap |-> mRevisionFilesMap,
     mUntrackedfiles |-> mUntrackedfiles, mDirNames |-> mDirNames,
     mFileNames |-> mFileNames, mLanes |-> mLanes]

Install(c) ==
    /\ mConfigured' = c.mConfigured
    /\ mCommits' = c.mCommits
    /\ mCommitsMap' = c.mCommitsMap
    /\ mTmpChildsStorage' = c.mTmpChildsStorage
    /\ mRevisionFilesMap' = c.mRevisionFilesMap
    /\ mUntrackedfiles' = c.mUntrackedfiles
    /\ mDirNames' = c.mDirNames
    /\ mFileNames' = c.mFileNames
    /\ mLanes' = c.mLanes

NoWip == [parentSha |-> <<>>, diffIndex |-> EmptyText, diffIndexCached |-> EmptyText]

NoDiff == [kind |-> "none", text |-> EmptyText, fields |-> <<>>, names |-> <<>>]

NoCall ==
    [op |-> "none", ret |-> FALSE, changed |-> FALSE, wipInfo |-> NoWip, commits |-> <<>>,
     key |-> <<>>, file |-> EmptyRevisionFiles, diff |-> NoDiff, attached |-> {}]

\* the flag before any call: the specification has it set by the first setup
mConfiguredInit == FALSE

\* the members after GitCache::GitCache: every container is empty
FreshCache ==
    [mConfigured |-> mConfiguredInit, mCommits |-> <<>>, mCommitsMap |-> <<>>,
     mTmpChildsStorage |-> EmptyBag, mRevisionFilesMap |-> <<>>, mUntrackedfiles |-> <<>>,
     mDirNames |-> <<>>, mFileNames |-> <<>>, mLanes |-> EmptyLanes]

NoQuery == [name |-> "none", row |-> 0, sha |-> <<>>, key |-> <<>>]

\* no thread is in a call
IdleCall ==
    [op |-> "none", wipInfo |-> NoWip, commits |-> <<>>, i |-> 0, count |-> 1,
     ub |-> [elide |-> TRUE, oob |-> {}], query |-> NoQuery, pre |-> FreshCache]

Init ==
    /\ mConfigured = FreshCache.mConfigured
    /\ mCommits = FreshCache.mCommits
    /\ mCommitsMap = FreshCache.mCommitsMap
    /\ mTmpChildsStorage = FreshCache.mTmpChildsStorage
    /\ mRevisionFilesMap = FreshCache.mRevisionFilesMap
    /\ mUntrackedfiles = FreshCache.mUntrackedfiles
    /\ mDirNames = FreshCache.mDirNames
    /\ mFileNames = FreshCache.mFileNames
    /\ mLanes = FreshCache.mLanes
    /\ mReferences = <<>>
    /\ mutex = NoThread
    /\ pc = [t \in Threads |-> "idle"]
    /\ call = [t \in Threads |-> IdleCall]
    /\ nSetups = 0
    /\ lastOp = NoCall

(***************************************************************************)
(* Actions: one per public operation, the whole call, made by one thread   *)
(* while no other is in a call                                             *)
(***************************************************************************)
Sequential == UNCHANGED <<mReferences, threadVars>>

Setup(wipInfo, commits, ub) ==
    /\ nSetups < MaxSetups
    /\ Sequential
    /\ Install(setup(Cache, wipInfo, commits, ub))
    /\ nSetups' = nSetups + 1
    /\ lastOp' = [NoCall EXCEPT !.op = "setup", !.wipInfo = wipInfo, !.commits = commits]

\* what is remembered of a call that returned r.ret and left the cache r.cache
Outcome(r, called) == [called EXCEPT !.ret = r.ret, !.changed = (r.cache /= Cache)]

UpdateWipCommit(wipInfo, ub) ==
    /\ Install(updateWipCommit(Cache, wipInfo, ub).cache)
    /\ lastOp' = Outcome(updateWipCommit(Cache, wipInfo, ub),
                         [NoCall EXCEPT !.op = "updateWipCommit"])
    /\ UNCHANGED nSetups
    /\ Sequential

InsertRevisionFile(sha1, sha2, file) ==
    /\ Install(insertRevisionFile(Cache, sha1, sha2, file).cache)
    /\ lastOp' = Outcome(insertRevisionFile(Cache, sha1, sha2, file),
                         [NoCall EXCEPT !.op = "insertRevisionFile",
                                        !.key = <<sha1, sha2>>, !.file = file])
    /\ UNCHANGED nSetups
    /\ Sequential

\* GitCache::setUntrackedFilesList
SetUntrackedFilesList(untrackedFiles) ==
    /\ mUntrackedfiles' = untrackedFiles
    /\ lastOp' = [NoCall EXCEPT !.op = "setUntrackedFilesList"]
    /\ UNCHANGED <<mConfigured, mCommits, mCommitsMap, mTmpChildsStorage,
                   mRevisionFilesMap, mDirNames, mFileNames, mLanes, nSetups>>
    /\ Sequential

\* GitCache::parseDiff: the interner tables of the cache grow, the record is returned
ParseDiff(d) ==
    /\ mDirNames' = parseDiff(NewParse(mDirNames, mFileNames), d.text).mDirNames
    /\ mFileNames' = parseDiff(NewParse(mDirNames, mFileNames), d.text).mFileNames
    /\ lastOp' = [NoCall EXCEPT !.op = "parseDiff", !.diff = d,
                    !.file = parseDiff(NewParse(mDirNames, mFileNames), d.text).recs["rf"]]
    /\ UNCHANGED <<mConfigured, mCommits, mCommitsMap, mTmpChildsStorage,
                   mRevisionFilesMap, mUntrackedfiles, mLanes, nSetups>>
    /\ Sequential

Next ==
    \/ \E w \in WipInputs, cs \in CommitLists : \E ub \in UbFor(w) : Setup(w, cs, ub)
    \/ \E w \in WipInputs : \E ub \in UbFor(w) : UpdateWipCommit(w, ub)

Spec == Init /\ [][Next]_vars

(***************************************************************************)
(* Queries, as functions of the cache                                      *)
(***************************************************************************)
\* GitCache::getCommitInfoByRow
getCommitInfoByRow(c, row) ==
    LET ptr == IF row >= 0 /\ row < Len(c.mCommits) THEN c.mCommits[row + 1] ELSE NULL
    IN  IF ptr /= NULL THEN c.mCommitsMap[ptr] ELSE EmptyCommit

\* GitCache::getCommitInfo.  QHash::keys() has no specified order, so the
\* prefix scan may stop at any key that starts with sha: the set of the
\* values the call may return
getCommitInfo(c, sha) ==
    IF sha = <<>> THEN {EmptyCommit}
    ELSE LET v == MapValue(c.mCommitsMap, sha)
         IN  IF isValid(v) THEN {v}
             ELSE LET hits == {k \in DOMAIN c.mCommitsMap : StartsWith(k, sha)}
                  IN  IF hits = {} THEN {EmptyCommit} ELSE {c.mCommitsMap[k] : k \in hits}

\* GitCache::count
count(c) == Len(c.mCommits)

\* GitCache::containsRevisionFile
containsRevisionFile(c, sha1, sha2) == <<sha1, sha2>> \in DOMAIN c.mRevisionFilesMap

\* GitCache::getRevisionFile
getRevisionFile(c, sha1, sha2) == RfValue(c.mRevisionFilesMap, <<sha1, sha2>>)

(***************************************************************************)
(* Claims about the commit store, checked under Spec                       *)
(***************************************************************************)
SetupDone == nSetups > 0

AfterSetup == lastOp.op = "setup"

\* the pointers the rows hold
RowTargets == Range(mCommits) \ {NULL}

\* the shas of the valid commits of a list
ValidShas(cs) == {cs[i].sha : i \in {j \in 1..Len(cs) : isValid(cs[j])}}

\* C1: updateWipCommit returns true (and regenerates the WIP commit) exactly
\* when a setup has completed before it; before any setup it returns false
\* and changes nothing.
C1_UpdateWipIffSetupDone ==
    lastOp.op = "updateWipCommit" =>
        /\ lastOp.ret <=> SetupDone
        /\ ~SetupDone => ~lastOp.changed

\* C2: once a setup has completed, every commit C of the store (the WIP
\* included) is among the child references of each of its parents that the
\* store holds.
C2_ParentsKnowChildren ==
    SetupDone =>
        \A s \in DOMAIN mCommitsMap :
            \A p \in Range(mCommitsMap[s].parents) :
                p \in DOMAIN mCommitsMap => s \in mCommitsMap[p].childs

\* C3: after the first setup row 0 holds the WIP commit, of sha ZERO_SHA, and
\* getCommitInfo(ZERO_SHA) returns the commit getCommitInfoByRow(0) returns.
C3_RowZeroIsWip ==
    SetupDone =>
        /\ count(Cache) >= 1
        /\ getCommitInfoByRow(Cache, 0).sha = ZERO_SHA
        /\ getCommitInfo(Cache, ZERO_SHA) = {getCommitInfoByRow(Cache, 0)}

\* C3 witness: a second setup has replaced the WIP commit of a populated cache
C3_Witness ==
    /\ nSetups = 2 /\ AfterSetup
    /\ count(Cache) > 1
    /\ getCommitInfoByRow(Cache, 0).parents = <<ShaA>>

\* the fields C6 compares
StoreView(c) ==
    [rows |-> c.mCommits, map |-> c.mCommitsMap, files |-> c.mRevisionFilesMap,
     pending |-> c.mTmpChildsStorage]

\* C6: a second setup with the arguments of the setup that just completed
\* leaves rows, sha map (child references included), revision files and
\* pending child edges as they are.
C6_SetupTwiceIsSetupOnce ==
    AfterSetup =>
        \A ub \in UbFor(lastOp.wipInfo) :
            StoreView(setup(Cache, lastOp.wipInfo, lastOp.commits, ub)) = StoreView(Cache)

\* C9: when setup completes the pending child-edge storage is empty.
C9_PendingDrained == AfterSetup => mTmpChildsStorage = EmptyBag

\* C10: after a setup the sha map holds the WIP commit and the commits of
\* that setup's list only, and each of them is referenced by a row.
C10_MapIsLatestInput ==
    AfterSetup =>
        /\ DOMAIN mCommitsMap \subseteq {ZERO_SHA} \cup ValidShas(lastOp.commits)
        /\ DOMAIN mCommitsMap = RowTargets

(***************************************************************************)
(* The revision files map, checked under SpecRf: insertRevisionFile        *)
(* between setups of a cache without commits                               *)
(***************************************************************************)
NextRf ==
    \/ \E w \in WipInputs : \E ub \in UbFor(w) : Setup(w, <<>>, ub)
    \/ \E s1 \in RfParentInputs, s2 \in RfChildInputs, f \in RfInputs :
          InsertRevisionFile(s1, s2, f)

SpecRf == Init /\ [][NextRf]_vars

AfterInsertRevisionFile == lastOp.op = "insertRevisionFile"

\* the keys insertRevisionFile accepts
AcceptedKey(key) == (key[1] /= <<>> /\ key[2] /= <<>>) \/ key[1] = ZERO_SHA

\* the same call made again in the state the first one left
SecondInsert == insertRevisionFile(Cache, lastOp.key[1], lastOp.key[2], lastOp.file)

\* C5 as claimed: of two successive identical calls on an accepted key the
\* first mutates the map and returns true, the second is a no-op returning false.
C5_ExactlyOneMutation ==
    (AfterInsertRevisionFile /\ AcceptedKey(lastOp.key)) =>
        /\ lastOp.ret /\ lastOp.changed
        /\ ~SecondInsert.ret /\ SecondInsert.cache = Cache

\* C5 amended: the value returned tells whether the map changed, a key that
\* is not accepted changes nothing, and the same call made again is a no-op
\* returning false: of two successive identical calls at most one mutates.
C5_AtMostOneMutation ==
    AfterInsertRevisionFile =>
        /\ lastOp.ret <=> lastOp.changed
        /\ ~AcceptedKey(lastOp.key) => ~lastOp.ret
        /\ ~SecondInsert.ret /\ SecondInsert.cache = Cache
        /\ lastOp.ret => getRevisionFile(Cache, lastOp.key[1], lastOp.key[2]) = lastOp.file

\* C5 witness: a record replaced the different record the key held
C5_Witness ==
    /\ AfterInsertRevisionFile /\ lastOp.ret /\ SetupDone
    /\ lastOp.key = <<ZERO_SHA, ShaA>>
    /\ lastOp.file = EmptyRevisionFiles

(***************************************************************************)
(* The diff parser, checked under SpecDiff: parseDiff of one line at a     *)
(* time, on the interner tables the calls before it left                   *)
(***************************************************************************)
NextDiff == \E d \in DiffInputs : ParseDiff(d)

SpecDiff == Init /\ [][NextDiff]_vars

\* "<orig> --> <dest> (<n>%)"
ExtStatusText(orig, dest, n) ==
    orig \o <<" ", "-", "-", ">", " ">> \o dest \o <<" ", "(">> \o n \o <<"%", ")">>

\* C4: a well-formed rename line yields dest as a NEW entry and orig as a
\* DELETED entry, a copy line yields dest as a NEW entry only, each entry with
\* the extended status "<orig> --> <dest> (<n>%)".
C4_RenameYieldsTwoEntries ==
    (lastOp.op = "parseDiff" /\ lastOp.diff.kind = "ext") =>
        LET type == lastOp.diff.fields[1]
            orig == lastOp.diff.fields[3]
            dest == lastOp.diff.fields[4]
            info == ExtStatusText(orig, dest, lastOp.diff.fields[2])
            rf == lastOp.file
        IN  IF type = "R"
            THEN /\ rf.mFiles = <<dest, orig>>
                 /\ rf.mFileStatus = <<{"NEW"}, {"DELETED"}>>
                 /\ rf.mRenamedFiles = <<info, info>>
            ELSE /\ rf.mFiles = <<dest>>
                 /\ rf.mFileStatus = <<{"NEW"}>>
                 /\ rf.mRenamedFiles = <<info>>

(***************************************************************************)
(* Threads, checked under SpecConc.  A call of a thread is a sequence of   *)
(* steps: it begins (a QMutexLocker, where the function has one, takes the *)
(* mutex), runs its body and returns (the locker releases the mutex).      *)
(* setup runs its body in steps: the reset, the WIP commit, one commit of  *)
(* the list at a time.  A read that runs beside a write of another thread  *)
(* sees the members as the steps made so far left them.                    *)
(***************************************************************************)
\* References::addReference: refs maps a type to the names of that type
addReference(refs, type, name) ==
    [t \in DOMAIN refs \cup {type} |->
        IF t = type THEN (IF t \in DOMAIN refs THEN refs[t] ELSE {}) \cup {name}
        ELSE refs[t]]

\* GitCache::insertReference: "mReferences[sha].addReference(type, reference)"
insertReference(refsMap, sha, type, reference) ==
    LET cur == IF sha \in DOMAIN refsMap THEN refsMap[sha] ELSE <<>>
    IN  [k \in DOMAIN refsMap \cup {sha} |->
            IF k = sha THEN addReference(cur, type, reference) ELSE refsMap[k]]

\* GitCache::clearReferences
clearReferences(refsMap) == <<>>

\* the functions that begin with "QMutexLocker lock(&mMutex)"
LockedFunctions == {"setup", "getCommitInfoByRow", "getCommitInfo", "insertReference"}

\* the functions that take no lock
UnlockedFunctions == {"count", "getRevisionFile", "containsRevisionFile", "clearReferences"}

FunctionOf(c) == IF c.op = "query" THEN c.query.name ELSE c.op

Locks(c) == FunctionOf(c) \in LockedFunctions

QueryInputs ==
    {[NoQuery EXCEPT !.name = "count"]}
    \cup {[NoQuery EXCEPT !.name = "getCommitInfoByRow", !.row = r] : r \in {0, 1}}
    \cup {[NoQuery EXCEPT !.name = "getCommitInfo", !.sha = x] : x \in {ZERO_SHA, ShaA}}
    \cup {[NoQuery EXCEPT !.name = n, !.key = <<ZERO_SHA, ShaA>>] :
            n \in {"getRevisionFile", "containsRevisionFile"}}

\* the answers a query may give on cache c
Answers(c, q) ==
    CASE q.name = "count" -> {count(c)}
      [] q.name = "getCommitInfoByRow" -> {getCommitInfoByRow(c, q.row)}
      [] q.name = "getCommitInfo" -> getCommitInfo(c, q.sha)
      [] q.name = "getRevisionFile" -> {getRevisionFile(c, q.key[1], q.key[2])}
      [] q.name = "containsRevisionFile" -> {containsRevisionFile(c, q.key[1], q.key[2])}

ConcWipInputs == {w \in WipInputs : w.parentSha = ShaA}

ConcCommitLists ==
    {<<>>, <<NewCommit(ShaA, <<ShaP>>, "apple")>>,
     <<NewCommit(ShaA, <<ShaP>>, "apple"), NewCommit(ShaP, <<>>, "cherry")>>}

CallInputs ==
    {[IdleCall EXCEPT !.op = "setup", !.wipInfo = w, !.commits = cs] :
        w \in ConcWipInputs, cs \in ConcCommitLists}
    \cup {[IdleCall EXCEPT !.op = "query", !.query = q] : q \in QueryInputs}
    \cup {[IdleCall EXCEPT !.op = o] : o \in {"insertReference", "clearReferences"}}

InSetup(t) == pc[t] \in {"setup_reset", "setup_wip", "setup_loop"}

\* thread t enters a function: the locker of a locked function waits for the mutex
Begin(t, c) ==
    /\ pc[t] = "idle"
    /\ c.op = "setup" => nSetups < MaxSetups
    /\ Locks(c) => mutex = NoThread
    /\ mutex' = IF Locks(c) THEN t ELSE mutex
    /\ pc' = [pc EXCEPT ![t] = IF c.op = "setup" THEN "setup_reset" ELSE c.op]
    /\ call' = [call EXCEPT ![t] = IF c.op = "setup" THEN [c EXCEPT !.pre = Cache] ELSE c]
    /\ UNCHANGED <<cacheVars, mReferences, nSetups, lastOp>>

\* thread t leaves its function: a locker releases the mutex it took
Return(t) ==
    /\ mutex' = IF mutex = t THEN NoThread ELSE mutex
    /\ pc' = [pc EXCEPT ![t] = "idle"]
    /\ call' = [call EXCEPT ![t] = IdleCall]

\* lines 29-47 of setup
SetupResetStep(t) ==
    /\ pc[t] = "setup_reset"
    /\ Install(setupReset(Cache, Len(call[t].commits) + 1))
    /\ pc' = [pc EXCEPT ![t] = "setup_wip"]
    /\ UNCHANGED <<mReferences, mutex, call, nSetups, lastOp>>

\* line 51 of setup
SetupWipStep(t) ==
    /\ pc[t] = "setup_wip"
    /\ Install(insertWipRevision(Cache, call[t].wipInfo, call[t].ub))
    /\ pc' = [pc EXCEPT ![t] = "setup_loop"]
    /\ UNCHANGED <<mReferences, mutex, call, nSetups, lastOp>>

\* one iteration of the loop of setup
SetupLoopStep(t) ==
    /\ pc[t] = "setup_loop"
    /\ call[t].i < Len(call[t].commits)
    /\ LET commit == call[t].commits[call[t].i + 1]
       IN  IF isValid(commit)
           THEN /\ Install(insertCommitInfo(Cache, commit, call[t].count))
                /\ call' = [call EXCEPT ![t].i = @ + 1, ![t].count = @ + 1]
           ELSE /\ UNCHANGED cacheVars
                /\ call' = [call EXCEPT ![t].i = @ + 1]
    /\ UNCHANGED <<mReferences, mutex, pc, nSetups, lastOp>>

\* setup returns
SetupEnd(t) ==
    /\ pc[t] = "setup_loop"
    /\ call[t].i = Len(call[t].commits)
    /\ Return(t)
    /\ nSetups' = nSetups + 1
    /\ UNCHANGED <<cacheVars, mReferences, lastOp>>

\* the body of a query and its return: the answer is read from the members
\* as they are at this step
QueryEnd(t) ==
    /\ pc[t] = "query"
    /\ Return(t)
    /\ UNCHANGED <<cacheVars, mReferences, nSetups, lastOp>>

\* the body of insertReference and its return
InsertReferenceEnd(t) ==
    /\ pc[t] = "insertReference"
    /\ mReferences' = insertReference(mReferences, ShaA, "LocalBranch", "main")
    /\ Return(t)
    /\ UNCHANGED <<cacheVars, nSetups, lastOp>>

\* the body of clearReferences and its return
ClearReferencesEnd(t) ==
    /\ pc[t] = "clearReferences"
    /\ mReferences' = clearReferences(mReferences)
    /\ Return(t)
    /\ UNCHANGED <<cacheVars, nSetups, lastOp>>

NextConc ==
    \E t \in Threads :
        \/ \E c \in CallInputs : Begin(t, c)
        \/ SetupResetStep(t)
        \/ SetupWipStep(t)
        \/ SetupLoopStep(t)
        \/ SetupEnd(t)
        \/ QueryEnd(t)
        \/ InsertReferenceEnd(t)
        \/ ClearReferencesEnd(t)

SpecConc == Init /\ [][NextConc]_vars

\* C7: no two threads are in public functions of the cache at the same time
\* (what the mutex gives when every public function holds it from its
\* first statement to its return).
C7_OneThreadInTheCache ==
    \A t, u \in Threads : (t /= u /\ pc[t] /= "idle") => pc[u] = "idle"

\* the answers a query of thread t may give in this state
AnswersNow(t) == Answers(Cache, call[t].query)

\* the answers the cache gives before the setup thread u is in, and after it
AnswersAround(u, q) ==
    Answers(call[u].pre, q)
    \cup Answers(setup(call[u].pre, call[u].wipInfo, call[u].commits, call[u].ub), q)

\* C8: a query that runs while another thread is in setup gives an answer
\* the cache gives before that setup or after it.
C8_NoPartialStore ==
    \A t, u \in Threads :
        (pc[t] = "query" /\ InSetup(u)) => AnswersNow(t) \subseteq AnswersAround(u, call[t].query)

(***************************************************************************)
(* References, checked under SpecRefs.  References is declared outside the *)
(* files at hand: a Refs entry maps a type to the set of the names of that *)
(* type, and is empty when it holds no name.                               *)
(***************************************************************************)
\* References::getReferences
getReferences(refs, type) == IF type \in DOMAIN refs THEN refs[type] ELSE {}

\* References::removeReference: the name goes, and the type with its last name
removeReference(refs, type, name) ==
    [t \in {u \in DOMAIN refs : refs[u] \ (IF u = type THEN {name} ELSE {}) /= {}} |->
        IF t = type THEN refs[t] \ {name} ELSE refs[t]]

\* References::isEmpty
RefsIsEmpty(refs) == DOMAIN refs = {}

\* QHash::value(key): a default constructed References when the key is absent
RefsValue(refsMap, sha) == IF sha \in DOMAIN refsMap THEN refsMap[sha] ELSE <<>>

\* the entries the loop of reloadCurrentBranchInfo may stop at
Holders(refsMap, branch) ==
    {k \in DOMAIN refsMap : branch \in getReferences(refsMap[k], "LocalBranch")}

\* lines 276-281: the branch leaves the entry of key, and the entry left
\* empty leaves the map
Detach(refsMap, key, branch) ==
    IF RefsIsEmpty(removeReference(refsMap[key], "LocalBranch", branch))
    THEN [k \in DOMAIN refsMap \ {key} |-> refsMap[k]]
    ELSE [refsMap EXCEPT ![key] = removeReference(@, "LocalBranch", branch)]

\* a plausible slip: the branch is added to currentSha and removed nowhere
reloadWithoutDetach(refsMap, currentBranch, currentSha) ==
    {insertReference(refsMap, currentSha, "LocalBranch", currentBranch)}

\* GitCache::reloadCurrentBranchInfo.  The loop stops at the first entry
\* that holds the branch, in the order of QHash, which is unspecified: the
\* set of the maps the call may leave
reloadCurrentBranchInfo(refsMap, currentBranch, currentSha) ==
    IF Holders(refsMap, currentBranch) = {}
    THEN {insertReference(refsMap, currentSha, "LocalBranch", currentBranch)}
    ELSE {insertReference(Detach(refsMap, k, currentBranch), currentSha,
                          "LocalBranch", currentBranch) :
            k \in Holders(refsMap, currentBranch)}

RefShas == {ShaA, ShaB, ShaP}

RefTypes == {"LocalBranch", "LocalTag"}

RefNames == {"main", "dev"}

\* a call on the references leaves the rest of the cache alone
OnReferences == UNCHANGED <<cacheVars, threadVars, nSetups>>

InsertReference(sha, type, reference) ==
    /\ mReferences' = insertReference(mReferences, sha, type, reference)
    /\ lastOp' = [NoCall EXCEPT !.op = "insertReference"]
    /\ OnReferences

ClearReferences ==
    /\ mReferences' = clearReferences(mReferences)
    /\ lastOp' = [NoCall EXCEPT !.op = "clearReferences"]
    /\ OnReferences

ReloadCurrentBranchInfo(currentBranch, currentSha) ==
    /\ mReferences' \in reloadCurrentBranchInfo(mReferences, currentBranch, currentSha)
    /\ lastOp' = [NoCall EXCEPT !.op = "reloadCurrentBranchInfo",
                                !.key = <<currentBranch, currentSha>>,
                                !.attached = Holders(mReferences, currentBranch)]
    /\ OnReferences

NextRefs ==
    \/ \E sha \in RefShas, type \in RefTypes, name \in RefNames :
          InsertReference(sha, type, name)
    \/ ClearReferences
    \/ \E b \in RefNames, sha \in RefShas : ReloadCurrentBranchInfo(b, sha)

SpecRefs == Init /\ [][NextRefs]_vars

AfterReload == lastOp.op = "reloadCurrentBranchInfo"

\* the maps a second reload of the same branch, to s2, may leave
SecondReload(s2) == reloadCurrentBranchInfo(mReferences, lastOp.key[1], s2)

\* what C11 requires of the map r: the branch is attached to s2 only, and
\* no entry is empty
AttachedOnlyTo(r, branch, s2) ==
    /\ Holders(r, branch) = {s2}
    /\ \A k \in DOMAIN r : ~RefsIsEmpty(r[k])

\* C11 as claimed: from any references state, after reload(B, S1) and
\* reload(B, S2) the local branch B is attached to S2 and to no other sha,
\* and no sha is mapped to an empty entry.
C11_ReloadTwiceAnyState ==
    AfterReload =>
        \A s2 \in RefShas : \A r \in SecondReload(s2) :
            AttachedOnlyTo(r, lastOp.key[1], s2)

\* C11 amended: the same, from a references state where B is attached to
\* at most one sha; after reload(B, S1) alone B is attached to S1 only.
C11_ReloadTwiceSingleHolder ==
    (AfterReload /\ Cardinality(lastOp.attached) <= 1) =>
        /\ AttachedOnlyTo(mReferences, lastOp.key[1], lastOp.key[2])
        /\ \A s2 \in RefShas : \A r \in SecondReload(s2) :
               AttachedOnlyTo(r, lastOp.key[1], s2)

\* C11 witness: the branch has left the sha it was attached to, whose entry
\* was pruned, and a second reload to another sha is possible
C11_Witness ==
    /\ AfterReload
    /\ lastOp.attached = {ShaA}
    /\ lastOp.key = <<"main", ShaB>>
    /\ ShaA \notin DOMAIN mReferences
    /\ ShaP \in DOMAIN mReferences

(***************************************************************************)
(* The work-dir synthesis, checked under SpecWip: setUntrackedFilesList    *)
(* and setup of a cache without commits, over working-tree and index diffs *)
(***************************************************************************)
\* "git diff-index" lines of the working tree: a file modified and not
\* staged (the destination blob is zero), modified and staged, in conflict
WorkDirDiffs ==
    {EmptyText, FastLine(TRUE, "M", FileF), FastLine(FALSE, "M", FileF),
     FastLine(TRUE, "U", FileF)}

\* "git diff-index --cached" lines: the file staged, in conflict, and
\* another file staged
IndexDiffs ==
    {EmptyText, FastLine(FALSE, "M", FileF), FastLine(FALSE, "U", FileF),
     FastLine(FALSE, "M", FileG)}

WorkDirInputs == [parentSha : {<<>>, ShaA}, diffIndex : WorkDirDiffs, diffIndexCached : IndexDiffs]

NextWip ==
    \/ \E u \in UntrackedInputs : SetUntrackedFilesList(u)
    \/ \E w \in WorkDirInputs : \E ub \in UbFor(w) : Setup(w, <<>>, ub)

SpecWip == Init /\ [][NextWip]_vars

\* the record stored for the WIP commit of the last setup
WipRecord == getRevisionFile(Cache, ZERO_SHA, lastOp.wipInfo.parentSha)

\* files, statuses and merge parents have one entry per file
ParallelLists(rf) ==
    /\ Len(rf.mFiles) = Len(rf.mFileStatus)
    /\ Len(rf.mFiles) = Len(rf.mergeParent)

\* C12: in the record parseDiff returns and in the record of the work-dir
\* synthesis the lists of files, statuses and merge parents have the same
\* length, and the files of a diff of ordinary lines are the paths of its
\* lines, in order, a path named twice included.
C12_ParallelLists ==
    /\ lastOp.op = "parseDiff" =>
           /\ ParallelLists(lastOp.file)
           /\ lastOp.diff.kind = "fast" => lastOp.file.mFiles = lastOp.diff.names
    /\ AfterSetup => ParallelLists(WipRecord)

(***************************************************************************)
(* Searches, checked under Spec.  CommitInfo::contains is declared outside *)
(* the files at hand: the searchable projection of a commit is modelled by *)
(* its sha, and contains(text) says whether text occurs in it.             *)
(***************************************************************************)
\* QString::contains
Infix(text, str) ==
    \E i \in 0..(Len(str) - Len(text)) : SubSeq(str, i + 1, i + Len(text)) = text

\* CommitInfo::contains
contains(commit, text) == Infix(text, commit.sha)

\* the texts searched for: in two shas, in one, in the sha of the WIP, in none
SearchTexts == {<<"a">>, <<"b", "1">>, <<"0">>, <<"z">>}

\* the commit row r (from 0) points to
RowCommit(c, r) == c.mCommitsMap[c.mCommits[r + 1]]

\* "info->contains(text)" stops std::find_if at row r.  A row that holds
\* nullptr is dereferenced: derefNull says whether that read stops the scan
\* there or goes by as a row that does not match
StopsAt(c, text, r, derefNull) ==
    IF c.mCommits[r + 1] = NULL THEN derefNull ELSE contains(RowCommit(c, r), text)

\* std::find_if over the rows from..count-1 upward: the row found, count at the end
FindUp(c, text, from, derefNull) ==
    IF \E r \in from..(count(c) - 1) : StopsAt(c, text, r, derefNull)
    THEN CHOOSE r \in from..(count(c) - 1) :
            /\ StopsAt(c, text, r, derefNull)
            /\ \A q \in from..(r - 1) : ~StopsAt(c, text, q, derefNull)
    ELSE count(c)

\* std::find_if over the rows top..0 downward: the row found, -1 at the end
FindDown(c, text, top, derefNull) ==
    IF \E r \in 0..top : StopsAt(c, text, r, derefNull)
    THEN CHOOSE r \in 0..top :
            /\ StopsAt(c, text, r, derefNull)
            /\ \A q \in (r + 1)..top : ~StopsAt(c, text, q, derefNull)
    ELSE -1

\* GitCache::searchCommit: the iterator as a row, mCommits.constEnd() as count
searchCommit(c, text, startingPoint, derefNull) ==
    FindUp(c, text, startingPoint, derefNull)

\* GitCache::reverseSearchCommit: "mCommits.crbegin() + startEndPos" is the
\* row count - 1 - startEndPos; mCommits.crend() as -1
reverseSearchCommit(c, text, startingPoint, derefNull) ==
    FindDown(c, text,
             count(c) - 1 - (IF startingPoint > 0 THEN count(c) - startingPoint + 1 ELSE 0),
             derefNull)

\* the default of startingPoint in "searchCommit(text)" and "reverseSearchCommit(text)"
DefaultStartingPoint == 0

\* what a call that read through a null row gives: the process stops
Crashed == [EmptyCommit EXCEPT !.log = "segmentation fault"]

\* "commit = **commitIter"
Deref(c, r) == IF c.mCommits[r + 1] = NULL THEN Crashed ELSE RowCommit(c, r)

\* the forward branch of searchCommitInfo, once the first scan has ended at row i
ForwardFrom(c, text, i, derefNull) ==
    IF i /= count(c) THEN Deref(c, i)
    ELSE IF searchCommit(c, text, DefaultStartingPoint, derefNull) /= count(c)
    THEN Deref(c, searchCommit(c, text, DefaultStartingPoint, derefNull))
    ELSE EmptyCommit

\* the reverse branch of searchCommitInfo, once the first scan has ended at row i
ReverseFrom(c, text, i, derefNull) ==
    IF i /= -1 THEN Deref(c, i)
    ELSE IF reverseSearchCommit(c, text, DefaultStartingPoint, derefNull) /= -1
    THEN Deref(c, reverseSearchCommit(c, text, DefaultStartingPoint, derefNull))
    ELSE EmptyCommit

\* GitCache::searchCommitInfo: the set of the values the call may return
searchCommitInfo(c, text, startingPoint, reverse) ==
    {IF ~reverse
     THEN ForwardFrom(c, text, searchCommit(c, text, startingPoint, d), d)
     ELSE ReverseFrom(c, text, reverseSearchCommit(c, text, startingPoint, d), d) :
        d \in BOOLEAN}

\* the rows that hold a commit whose searchable projection contains text
MatchingRows(c, text) ==
    {r \in 0..(count(c) - 1) : c.mCommits[r + 1] /= NULL /\ contains(RowCommit(c, r), text)}

Least(S) == CHOOSE r \in S : \A q \in S : r <= q

Greatest(S) == CHOOSE r \in S : \A q \in S : r >= q

\* what C13 requires of a forward search from s
ForwardAnswer(c, text, s) ==
    IF MatchingRows(c, text) = {} THEN EmptyCommit
    ELSE IF \E r \in MatchingRows(c, text) : r >= s
    THEN RowCommit(c, Least({r \in MatchingRows(c, text) : r >= s}))
    ELSE RowCommit(c, Least(MatchingRows(c, text)))

ReverseAnswer(c, text, s) ==
    IF MatchingRows(c, text) = {} THEN EmptyCommit
    ELSE IF \E r \in MatchingRows(c, text) : r <= s
    THEN RowCommit(c, Greatest({r \in MatchingRows(c, text) : r <= s}))
    ELSE RowCommit(c, Greatest(MatchingRows(c, text)))

\* C18: a reverse search from s returns the commit of the greatest matching
\* row r <= s, else of the greatest matching row, and an empty commit only
\* when no row matches.
C18_ReverseSearch ==
    SetupDone =>
        \A text \in SearchTexts : \A s \in 0..count(Cache) :
            searchCommitInfo(Cache, text, s, TRUE) = {ReverseAnswer(Cache, text, s)}

(***************************************************************************)
(* Lookups by sha prefix, checked under Spec.  The order in which a QHash  *)
(* is walked is unspecified but the same for every walk of an unchanged    *)
(* map: order is a sequence of the keys, each once.                        *)
(***************************************************************************)
KeyOrders(map) ==
    {o \in [1..Cardinality(DOMAIN map) -> DOMAIN map] :
        \A i, j \in DOMAIN o : o[i] = o[j] => i = j}

\* std::find_if over the keys in order: the first key among hits, the keys
\* that satisfy the predicate, or NULL
FirstKey(order, hits) ==
    IF \E i \in DOMAIN order : order[i] \in hits
    THEN order[CHOOSE i \in DOMAIN order :
                  order[i] \in hits /\ \A j \in 1..(i - 1) : order[j] \notin hits]
    ELSE NULL

\* GitCache::getCommitPos
getCommitPos(c, sha, order) ==
    LET hits == {k \in DOMAIN c.mCommitsMap : StartsWith(c.mCommitsMap[k].sha, sha)}
    IN  IF FirstKey(order, hits) /= NULL
        THEN IndexOf(c.mCommits, FirstKey(order, hits))
        ELSE -1

\* GitCache::getCommitInfo, the keys walked in order
getCommitInfoIn(c, sha, order) ==
    LET hits == {k \in DOMAIN c.mCommitsMap : StartsWith(k, sha)}
    IN  IF sha = <<>> THEN EmptyCommit
        ELSE IF isValid(MapValue(c.mCommitsMap, sha)) THEN MapValue(c.mCommitsMap, sha)
        ELSE IF FirstKey(order, hits) /= NULL THEN c.mCommitsMap[FirstKey(order, hits)]
        ELSE EmptyCommit

\* the arguments: empty, a prefix of two shas, a sha, prefixes of one sha, of none
ShaArguments == {<<>>, <<"a">>, ShaA, <<"b">>, <<"0">>, <<"z">>}

\* C14: for every argument getCommitPos returns the row of the commit
\* getCommitInfo returns, and -1 exactly when getCommitInfo returns an
\* empty commit.
C14_PosAgreesWithInfo ==
    SetupDone =>
        \A sha \in ShaArguments : \A order \in KeyOrders(mCommitsMap) :
            /\ getCommitPos(Cache, sha, order) = -1
                  <=> getCommitInfoIn(Cache, sha, order) = EmptyCommit
            /\ getCommitPos(Cache, sha, order) /= -1
                  => getCommitInfoByRow(Cache, getCommitPos(Cache, sha, order))
                        = getCommitInfoIn(Cache, sha, order)

(***************************************************************************)
(* The WIP record and the pending local changes, checked under SpecWip     *)
(***************************************************************************)
\* C15: after setup the record of the WIP commit is stored under
\* (ZERO_SHA, wipInfo.parentSha), whatever the working tree, one without
\* changes and without untracked files included.
C15_WipRecordStored ==
    AfterSetup => containsRevisionFile(Cache, ZERO_SHA, lastOp.wipInfo.parentSha)

\* C15 witness: a second setup, of a working tree without changes and
\* without untracked files
C15_Witness ==
    /\ AfterSetup /\ nSetups = 2
    /\ lastOp.wipInfo.diffIndex = EmptyText
    /\ lastOp.wipInfo.diffIndexCached = EmptyText
    /\ mUntrackedfiles = <<>>
    /\ RfCount(WipRecord) = 0

\* GitCache::pendingLocalChanges
pendingLocalChanges(c) ==
    IF isValid(MapValue(c.mCommitsMap, ZERO_SHA))
    THEN RfCount(getRevisionFile(c, ZERO_SHA, Parent0(MapValue(c.mCommitsMap, ZERO_SHA))))
            - Len(c.mUntrackedfiles) > 0
    ELSE FALSE

\* the record pendingLocalChanges reads: the one stored for the WIP commit
\* and its first parent
StoredWipRecord == getRevisionFile(Cache, ZERO_SHA, Parent0(MapValue(mCommitsMap, ZERO_SHA)))

\* the record holds a file change that is not an untracked file
HasTrackedChange(rf) ==
    \E i \in 1..Len(rf.mFileStatus) : "UNKNOWN" \notin rf.mFileStatus[i]

\* C16: after any sequence of setUntrackedFilesList and setup calls (one
\* setup at least) pendingLocalChanges returns true exactly when the WIP
\* record holds a file change that is not an untracked file, and exactly
\* when the log of the WIP commit is "Local changes".
C16_PendingIffTrackedChange ==
    SetupDone =>
        /\ pendingLocalChanges(Cache) <=> HasTrackedChange(StoredWipRecord)
        /\ pendingLocalChanges(Cache) <=> MapValue(mCommitsMap, ZERO_SHA).log = "Local changes"

(***************************************************************************)
(* The order of the rows, checked under Spec                               *)
(***************************************************************************)
\* the valid commits of the list of the last setup, in the order of the list
ValidCommits == SelectSeq(lastOp.commits, isValid)

\* C17: after a setup the k-th valid commit of its list is at row k, for
\* every k from 1: an invalid entry takes no row and shifts no commit.
C17_ValidCommitsInOrder ==
    AfterSetup =>
        \A k \in 1..Len(ValidCommits) :
            /\ getCommitInfoByRow(Cache, k).sha = ValidCommits[k].sha
            /\ getCommitInfoByRow(Cache, k).parents = ValidCommits[k].parents
            /\ getCommitInfoByRow(Cache, k).log = ValidCommits[k].log

\* C17 witness: an invalid entry came before a valid commit, which is at row 1
C17_Witness ==
    /\ AfterSetup
    /\ Len(lastOp.commits) = 2
    /\ ~isValid(lastOp.commits[1])
    /\ isValid(lastOp.commits[2])
    /\ getCommitInfoByRow(Cache, 1).sha = lastOp.commits[2].sha
    /\ getCommitInfoByRow(Cache, 1).log = lastOp.commits[2].log

(***************************************************************************)
(* The flags of the work-dir synthesis, checked under SpecWip              *)
(***************************************************************************)
\* one side of the synthesis read on its own: the files and statuses its
\* lines denote
SideOf(text) == parseDiff(NewParse(<<>>, <<>>), text).recs["rf"]

\* the status a record holds for a path, no flag where it holds none
StatusOf(rf, path) ==
    IF IndexOf(rf.mFiles, path) /= -1 /\ IndexOf(rf.mFiles, path) < Len(rf.mFileStatus)
    THEN rf.mFileStatus[IndexOf(rf.mFiles, path) + 1] ELSE {}

InBoth(wipInfo, path) ==
    /\ IndexOf(SideOf(wipInfo.diffIndex).mFiles, path) /= -1
    /\ IndexOf(SideOf(wipInfo.diffIndexCached).mFiles, path) /= -1

\* what the synthesis is to add to the working side's status of a path
AddedFlags(wipInfo, path) ==
    IF ~InBoth(wipInfo, path) THEN {}
    ELSE IF "CONFLICT" \in StatusOf(SideOf(wipInfo.diffIndexCached), path) THEN {"CONFLICT"}
    ELSE IF /\ "MODIFIED" \in StatusOf(SideOf(wipInfo.diffIndex), path)
            /\ "IN_INDEX" \notin StatusOf(SideOf(wipInfo.diffIndex), path)
    THEN {"PARTIALLY_CACHED"} ELSE {}

\* C19: in the WIP record of a setup, a file of both diffs carries CONFLICT
\* when the index side has it in conflict and otherwise PARTIALLY_CACHED when
\* the working side has it MODIFIED and not IN_INDEX; no other file of the
\* record has either flag added to the status its diff gives it.
C19_CachedFlags ==
    AfterSetup =>
        \A i \in 1..Len(WipRecord.mFiles) :
            /\ AddedFlags(lastOp.wipInfo, WipRecord.mFiles[i])
                   \subseteq StatusOf(WipRecord, WipRecord.mFiles[i])
            /\ (StatusOf(WipRecord, WipRecord.mFiles[i]) \cap {"CONFLICT", "PARTIALLY_CACHED"})
                   \subseteq (AddedFlags(lastOp.wipInfo, WipRecord.mFiles[i])
                               \cup StatusOf(SideOf(lastOp.wipInfo.diffIndex), WipRecord.mFiles[i]))

(***************************************************************************)
(* The lanes of the WIP row, checked under Spec                            *)
(***************************************************************************)
\* C20: once a setup has completed, every call leaves the WIP commit at
\* row 0 with the lanes the WIP commit of row 0 had before the call.
C20_WipLanesKept ==
    [][SetupDone =>
          /\ mCommits'[1] = ZERO_SHA
          /\ mCommitsMap'[ZERO_SHA].lanes = mCommitsMap[ZERO_SHA].lanes]_vars

\* C20 witness: a second setup has installed a WIP commit with a parent,
\* and its lanes are those of the first WIP commit, which had none
C20_Witness ==
    /\ nSetups = 2 /\ AfterSetup
    /\ mCommits[1] = ZERO_SHA
    /\ mCommitsMap[ZERO_SHA].parents = <<ShaA>>
    /\ mCommitsMap[ZERO_SHA].lanes = <<"Initial">>
    /\ calculateLanes(init(ZERO_SHA), mCommitsMap[ZERO_SHA]).lanes = <<"Branch">>

(***************************************************************************)
(* The rows after a setup and the child references, checked under Spec     *)
(***************************************************************************)
\* C21: after a setup every row from 1 below count() holds a commit of the
\* list of that setup: no row is null and none holds a commit of an earlier
\* setup, so getCommitInfoByRow returns a valid commit for each.
C21_RowsHoldLatestInput ==
    AfterSetup =>
        \A i \in 1..(count(Cache) - 1) :
            /\ mCommits[i + 1] /= NULL
            /\ mCommits[i + 1] \in ValidShas(lastOp.commits)
            /\ isValid(getCommitInfoByRow(Cache, i))

\* C22: once a setup has completed, every child reference of a commit held
\* in a row points to a commit held in a row (the WIP included) that has
\* this commit among its parents.
C22_ChildRefsAreCurrent ==
    SetupDone =>
        \A p \in RowTargets :
            \A ch \in mCommitsMap[p].childs :
                /\ ch \in RowTargets
                /\ p \in Range(mCommitsMap[ch].parents)

====
